---- MODULE Spec2Model ----
(***************************************************************************)
(* Model of PBusch_PersonalProject.py: the guarded division and scalar     *)
(* coercion helpers, the per-year metric derivation get_annual_metrics,    *)
(* and the year-range comparison compare_stocks_over_range.               *)
(*                                                                         *)
(* Python values are records [k, n, d]:                                    *)
(*   k = "None"  the None object                                           *)
(*   k = "num"   the finite number n/d (d > 0, lowest terms)               *)
(*   k = "nan"   float NaN                                                 *)
(*   k = "inf"   float infinity of sign n (1 or -1)                        *)
(*   k = "str"   a non-empty string (a non-numeric cell or field)          *)
(***************************************************************************)
EXTENDS Integers, Sequences, FiniteSets, TLC

VARIABLES
    sd,            \* one call of safe_divide: operands, position, outcome
    provider,      \* the data the provider serves for the ticker under study
    devs,          \* how many times the provider's data moved off the baseline
    call,          \* one call of get_annual_metrics: arguments, position, outcome
    pc,            \* position of the Streamlit script / compare_stocks_over_range
    ticker1, ticker2, start_year, end_year,   \* the user's inputs
    year,          \* loop variable of compare_stocks_over_range
    metrics1, metrics2,   \* results of the two calls of the current iteration
    yearly_data,   \* list of combined rows
    comparison_table,     \* value returned by compare_stocks_over_range
    warnings,      \* st.warning messages shown so far
    log            \* per call of get_annual_metrics in the loop: ticker, year, outcome

vars == <<sd, provider, devs, call, pc, ticker1, ticker2, start_year, end_year,
          year, metrics1, metrics2, yearly_data, comparison_table, warnings, log>>

rangeVars == <<pc, ticker1, ticker2, start_year, end_year, year, metrics1,
               metrics2, yearly_data, comparison_table, log>>

----------------------------------------------------------------------------
(* Bounds *)

\* Number of years the user can pick start_year and end_year from.
MaxSpan == 3

\* How many single changes away from the complete baseline the provider's
\* data may be.
MaxDeviations == 2

\* First year the user may enter in the model (the widget's default value).
FirstYear == 2021

Years == FirstYear .. (FirstYear + MaxSpan - 1)

Tickers == {"TSLA", "MSFT"}

----------------------------------------------------------------------------
(* Python values *)

NoneV == [k |-> "None", n |-> 0, d |-> 1]
NaN == [k |-> "nan", n |-> 0, d |-> 1]
Inf(s) == [k |-> "inf", n |-> s, d |-> 1]
Str == [k |-> "str", n |-> 0, d |-> 1]

Abs(i) == IF i < 0 THEN -i ELSE i
Sign(i) == IF i < 0 THEN -1 ELSE IF i > 0 THEN 1 ELSE 0

RECURSIVE GCD(_, _)
GCD(a, b) == IF b = 0 THEN a ELSE GCD(b, a % b)

\* The number n/d in lowest terms with a positive denominator (d # 0).
Num(n, d) ==
    LET g == GCD(Abs(n), Abs(d))
    IN [k |-> "num", n |-> (Sign(d) * n) \div g, d |-> Abs(d) \div g]

Whole(i) == Num(i, 1)

IsNone(v) == v.k = "None"
IsFinite(v) == v.k = "num"
IsZero(v) == v.k = "num" /\ v.n = 0

\* bool(v): None and zero are falsy; NaN, infinities and non-empty strings
\* are truthy.
Truthy(v) == ~IsNone(v) /\ ~IsZero(v)

\* Outcome of evaluating an expression: the value, or the exception raised.
Ok(v) == [exc |-> "none", msg |-> "", val |-> v]
Raise(type, msg) == [exc |-> type, msg |-> msg, val |-> NoneV]
Raised(r) == r.exc # "none"

\* numerator / denominator as Python evaluates it.
TrueDiv(a, b) ==
    IF a.k \in {"None", "str"} \/ b.k \in {"None", "str"}
        THEN Raise("TypeError", "unsupported operand type(s) for /")
    ELSE IF IsZero(b) THEN Raise("ZeroDivisionError", "division by zero")
    ELSE IF a.k = "nan" \/ b.k = "nan" THEN Ok(NaN)
    ELSE IF a.k = "inf" /\ b.k = "inf" THEN Ok(NaN)
    ELSE IF a.k = "inf" THEN Ok(Inf(a.n * Sign(b.n)))
    ELSE IF b.k = "inf" THEN Ok(Whole(0))
    ELSE Ok(Num(a.n * b.d, a.d * b.n))

\* a - b as Python evaluates it.
Minus(a, b) ==
    IF a.k \in {"None", "str"} \/ b.k \in {"None", "str"}
        THEN Raise("TypeError", "unsupported operand type(s) for -")
    ELSE IF a.k = "nan" \/ b.k = "nan" THEN Ok(NaN)
    ELSE IF a.k = "inf" /\ b.k = "inf"
        THEN IF a.n = b.n THEN Ok(NaN) ELSE Ok(Inf(a.n))
    ELSE IF a.k = "inf" THEN Ok(Inf(a.n))
    ELSE IF b.k = "inf" THEN Ok(Inf(-b.n))
    ELSE Ok(Num(a.n * b.d - b.n * a.d, a.d * b.d))

\* The guard written `numerator and denominator`: a zero numerator is taken
\* for a missing one.
safe_divide_truthy_numerator(numerator, denominator) ==
    IF Truthy(numerator) /\ Truthy(denominator)
        THEN LET r == TrueDiv(numerator, denominator)
             IN IF r.exc = "ZeroDivisionError" THEN Ok(NoneV) ELSE r
        ELSE Ok(NoneV)

\* safe_divide: the conditional expression inside try, and the one handler.
safe_divide(numerator, denominator) ==
    IF ~IsNone(numerator) /\ Truthy(denominator)
        THEN LET r == TrueDiv(numerator, denominator)
             IN IF r.exc = "ZeroDivisionError" THEN Ok(NoneV) ELSE r
        ELSE Ok(NoneV)

----------------------------------------------------------------------------
(* Cells of a statement: a scalar, or a pandas Series when a label repeats *)

Scalar(v) == [series |-> FALSE, items |-> <<v>>]
Series(s) == [series |-> TRUE, items |-> s]

\* a + b for two float values.
Plus(a, b) ==
    IF a.k = "nan" \/ b.k = "nan" THEN NaN
    ELSE IF a.k = "inf" /\ b.k = "inf" THEN IF a.n = b.n THEN a ELSE NaN
    ELSE IF a.k = "inf" THEN a
    ELSE IF b.k = "inf" THEN b
    ELSE Num(a.n * b.d + b.n * a.d, a.d * b.d)

\* Series.sum(): NaN entries are skipped, the empty sum is 0.
RECURSIVE SeriesSum(_)
SeriesSum(s) ==
    IF s = <<>> THEN Whole(0)
    ELSE IF Head(s).k = "nan" THEN SeriesSum(Tail(s))
    ELSE Plus(Head(s), SeriesSum(Tail(s)))

get_scalar(value) ==
    IF value.series
        THEN IF Len(value.items) = 1 THEN value.items[1] ELSE SeriesSum(value.items)
        ELSE value.items[1]

----------------------------------------------------------------------------
(* The provider's data for one ticker, as yfinance hands it over *)

FinRows == {"Net Income", "Gross Profit", "Total Revenue", "EBITDA"}

BsRows == {"Total Equity Gross Minority Interest", "Total Assets",
           "Total Liabilities Net Minority Interest"}

InfoKeys == {"enterpriseToEbitda", "pegRatio", "trailingEps", "marketCap"}

\* f"{year}": the decimal year string that labels a fiscal-year column.
YearLabel(y) == ToString(y)

\* A complete statement set covering the fiscal years ys: every row and
\* column present, every cell a non-zero finite number.  EBITDA arrives as
\* a one-element Series.
BaseFinCell(row, y) ==
    CASE row = "Net Income" -> Scalar(Whole(6))
      [] row = "Gross Profit" -> Scalar(Whole(8))
      [] row = "Total Revenue" -> Scalar(Whole(16 + 4 * (y - (FirstYear - 1))))
      [] row = "EBITDA" -> Series(<<Whole(5)>>)

BaseBsCell(row, y) ==
    CASE row = "Total Equity Gross Minority Interest" -> Scalar(Whole(4))
      [] row = "Total Assets" -> Scalar(Whole(12))
      [] row = "Total Liabilities Net Minority Interest" -> Scalar(Whole(10))

YearOfLabel(ys, c) == CHOOSE y \in ys : YearLabel(y) = c

Baseline(ys) ==
    LET labels == {YearLabel(y) : y \in ys}
    IN [history |-> <<Whole(25), Whole(30)>>,
        financials |->
            [index |-> FinRows, columns |-> labels,
             cell |-> [r \in FinRows |->
                          [c \in labels |-> BaseFinCell(r, YearOfLabel(ys, c))]]],
        balance_sheet |->
            [index |-> BsRows, columns |-> labels,
             cell |-> [r \in BsRows |->
                          [c \in labels |-> BaseBsCell(r, YearOfLabel(ys, c))]]],
        info |-> [k \in InfoKeys |->
                     CASE k = "enterpriseToEbitda" -> Whole(7)
                       [] k = "pegRatio" -> Whole(2)
                       [] k = "trailingEps" -> Whole(3)
                       [] k = "marketCap" -> Whole(50)]]

\* One change of the provider's data.
Deviation(kind, stmt, row, col, cell) ==
    [kind |-> kind, stmt |-> stmt, row |-> row, col |-> col, cell |-> cell]

WithStatement(p, stmt, s) ==
    IF stmt = "financials" THEN [p EXCEPT !.financials = s]
    ELSE [p EXCEPT !.balance_sheet = s]

StatementOf(p, stmt) ==
    IF stmt = "financials" THEN p.financials ELSE p.balance_sheet

Apply(p, dv) ==
    CASE dv.kind = "no_history" -> [p EXCEPT !.history = <<>>]
      [] dv.kind = "last_close" ->
            [p EXCEPT !.history = [@ EXCEPT ![Len(@)] = dv.cell.items[1]]]
      [] dv.kind = "drop_row" ->
            WithStatement(p, dv.stmt,
                [StatementOf(p, dv.stmt) EXCEPT !.index = @ \ {dv.row}])
      [] dv.kind = "drop_column" ->
            WithStatement(p, dv.stmt,
                [StatementOf(p, dv.stmt) EXCEPT !.columns = @ \ {dv.col}])
      [] dv.kind = "cell" ->
            WithStatement(p, dv.stmt,
                [StatementOf(p, dv.stmt) EXCEPT !.cell[dv.row][dv.col] = dv.cell])
      [] dv.kind = "info" ->
            IF IsNone(dv.cell.items[1])
                THEN [p EXCEPT !.info = [k \in (DOMAIN @) \ {dv.row} |-> @[k]]]
                ELSE [p EXCEPT !.info =
                        [k \in (DOMAIN @) \cup {dv.row} |->
                            IF k = dv.row THEN dv.cell.items[1] ELSE @[k]]]

----------------------------------------------------------------------------
(* get_annual_metrics *)

MetricKeys == <<"ROE", "ROA", "Gross Profit Margin", "Debt-to-Equity",
                "P/E Ratio", "EV/EBITDA", "P/EBITDA", "Earnings Yield",
                "Revenue Growth", "PEG Ratio">>

AllMetricKeys == {MetricKeys[i] : i \in DOMAIN MetricKeys}

EmptyDict == [k \in {} |-> NoneV]

\* What a call hands back: None, or the metrics dict.
NoneRet == [none |-> TRUE, metrics |-> EmptyDict]
DictRet(m) == [none |-> FALSE, metrics |-> m]

\* st.warning(f"..."): the template and the values substituted into it.
NoDataWarning(ticker, y) ==
    [template |-> "No data found for {ticker} in {year}.",
     args |-> [ticker |-> ticker, year |-> YearLabel(y)]]

ErrorWarning(y, e) ==
    [template |-> "Error calculating metrics for {year}: {e}",
     args |-> [year |-> YearLabel(y), e |-> e]]

\* The lookup without its column guard.
Fetch_unguarded(stmt, row, col) ==
    IF row \in stmt.index /\ col \in stmt.columns
        THEN Ok(get_scalar(stmt.cell[row][col]))
        ELSE Raise("KeyError", IF row \in stmt.index THEN col ELSE row)

\* get_scalar(stmt.loc[row, col]) if col in stmt.columns else None
Fetch(stmt, row, col) ==
    IF col \in stmt.columns
        THEN IF row \in stmt.index
                THEN Ok(get_scalar(stmt.cell[row][col]))
                ELSE Raise("KeyError", row)
        ELSE Ok(NoneV)

\* info.get(key, None)
InfoGet(info, key) == IF key \in DOMAIN info THEN info[key] ELSE NoneV

\* The PEG step with the provider's figure ignored.
PegStep_always_computed(peg_ratio, pe, growth) ==
    LET earnings_growth_rate == safe_divide(growth, Whole(100))
    IN IF Raised(earnings_growth_rate) THEN earnings_growth_rate
       ELSE safe_divide(pe, earnings_growth_rate.val)

\* PEG Ratio: the provider's figure, else P/E over (Revenue Growth / 100).
PegStep(peg_ratio, pe, growth) ==
    IF IsNone(peg_ratio)
        THEN LET earnings_growth_rate == safe_divide(growth, Whole(100))
             IN IF Raised(earnings_growth_rate) THEN earnings_growth_rate
                ELSE safe_divide(pe, earnings_growth_rate.val)
        ELSE Ok(peg_ratio)

\* (revenue - previous_revenue) / previous_revenue
RevenueGrowth(revenue, previous_revenue) ==
    LET diff == Minus(revenue, previous_revenue)
    IN IF Raised(diff) THEN diff ELSE safe_divide(diff.val, previous_revenue)

Step(key, r) == [key |-> key, r |-> r]

\* The statements of the try block in order; the first one that raises
\* ends the block with the dict as filled so far.
RECURSIVE RunSteps(_, _, _)
RunSteps(steps, i, metrics) ==
    IF i > Len(steps)
        THEN [exc |-> "none", msg |-> "", metrics |-> metrics]
    ELSE IF Raised(steps[i].r)
        THEN [exc |-> steps[i].r.exc, msg |-> steps[i].r.msg, metrics |-> metrics]
    ELSE RunSteps(steps, i + 1,
            IF steps[i].key = "" THEN metrics
            ELSE [k \in (DOMAIN metrics) \cup {steps[i].key} |->
                     IF k = steps[i].key THEN steps[i].r.val ELSE metrics[k]])

\* The handler with the dict filled so far handed back.
OnException_returns_partial(ticker, y, e, metrics) ==
    [ret |-> DictRet(metrics), warn |-> <<ErrorWarning(y, e)>>,
     aborted |-> TRUE, partial |-> metrics]

\* except Exception as e: warn and return None.
OnException(ticker, y, e, metrics) ==
    [ret |-> NoneRet, warn |-> <<ErrorWarning(y, e)>>,
     aborted |-> TRUE, partial |-> metrics]

TryBlock(stock, y) ==
    LET financials == stock.financials
        balance_sheet == stock.balance_sheet
        info == stock.info
        net_income == Fetch(financials, "Net Income", YearLabel(y))
        stockholders_equity ==
            Fetch(balance_sheet, "Total Equity Gross Minority Interest", YearLabel(y))
        total_assets == Fetch(balance_sheet, "Total Assets", YearLabel(y))
        gross_profit == Fetch(financials, "Gross Profit", YearLabel(y))
        revenue == Fetch(financials, "Total Revenue", YearLabel(y))
        total_liabilities ==
            Fetch(balance_sheet, "Total Liabilities Net Minority Interest", YearLabel(y))
        ebitda == Fetch(financials, "EBITDA", YearLabel(y))
        ev_ebitda == InfoGet(info, "enterpriseToEbitda")
        peg_ratio == InfoGet(info, "pegRatio")
        end_of_year_price == stock.history[Len(stock.history)]
        eps == InfoGet(info, "trailingEps")
        market_cap == InfoGet(info, "marketCap")
        pe == safe_divide(end_of_year_price, eps)
        previous_revenue == Fetch(financials, "Total Revenue", YearLabel(y - 1))
        growth == RevenueGrowth(revenue.val, previous_revenue.val)
    IN RunSteps(
        << Step("", net_income), Step("", stockholders_equity),
           Step("", total_assets), Step("", gross_profit), Step("", revenue),
           Step("", total_liabilities), Step("", ebitda),
           Step("ROE", safe_divide(net_income.val, stockholders_equity.val)),
           Step("ROA", safe_divide(net_income.val, total_assets.val)),
           Step("Gross Profit Margin", safe_divide(gross_profit.val, revenue.val)),
           Step("Debt-to-Equity",
                safe_divide(total_liabilities.val, stockholders_equity.val)),
           Step("P/E Ratio", pe),
           Step("EV/EBITDA", Ok(ev_ebitda)),
           Step("P/EBITDA", safe_divide(market_cap, ebitda.val)),
           Step("Earnings Yield", safe_divide(eps, end_of_year_price)),
           Step("", previous_revenue),
           Step("Revenue Growth", growth),
           Step("PEG Ratio", PegStep(peg_ratio, pe.val, growth.val)) >>,
        1, EmptyDict)

\* get_annual_metrics(ticker, year) against the data `stock` the provider
\* serves for the ticker.
get_annual_metrics(ticker, y, stock) ==
    IF stock.history = <<>>
        THEN [ret |-> NoneRet, warn |-> <<NoDataWarning(ticker, y)>>,
              aborted |-> FALSE, partial |-> EmptyDict]
        ELSE LET t == TryBlock(stock, y)
             IN IF t.exc # "none"
                    THEN OnException(ticker, y, t.msg, t.metrics)
                    ELSE [ret |-> DictRet(t.metrics), warn |-> <<>>,
                          aborted |-> FALSE, partial |-> t.metrics]

----------------------------------------------------------------------------
(* compare_stocks_over_range *)

\* The row test written with `or`.
RowWanted_either(m1, m2) ==
    (~m1.none /\ DOMAIN m1.metrics # {}) \/ (~m2.none /\ DOMAIN m2.metrics # {})

\* if metrics1 and metrics2: neither is None nor an empty dict.
RowWanted(m1, m2) ==
    (~m1.none /\ DOMAIN m1.metrics # {}) /\ (~m2.none /\ DOMAIN m2.metrics # {})

\* f"{ticker}_{key}"
Prefixed(ticker, key) == ticker \o "_" \o key

\* {"Year": year, **{...metrics1...}, **{...metrics2...}}: a later key
\* replaces an equal earlier one.
CombinedData(t1, t2, y, m1, m2) ==
    LET keys1 == {Prefixed(t1, k) : k \in DOMAIN m1.metrics}
        keys2 == {Prefixed(t2, k) : k \in DOMAIN m2.metrics}
    IN [Year |-> y,
        data |-> [c \in keys1 \cup keys2 |->
                    IF c \in keys2
                        THEN m2.metrics[CHOOSE k \in DOMAIN m2.metrics :
                                            Prefixed(t2, k) = c]
                        ELSE m1.metrics[CHOOSE k \in DOMAIN m1.metrics :
                                            Prefixed(t1, k) = c]]]

NoTable == [none |-> TRUE, rows |-> <<>>]
DataFrame(rows) == [none |-> FALSE, rows |-> rows]

EmptyWarning(t1, t2) ==
    [template |-> "No data available for {ticker1} and {ticker2} in the specified range.",
     args |-> [ticker1 |-> t1, ticker2 |-> t2]]

\* The ending with the list handed to DataFrame whatever its length.
RangeResult_always_table(rows, t1, t2) ==
    [table |-> DataFrame(rows), warn |-> <<>>]

\* if yearly_data: return pd.DataFrame(yearly_data); else warn, return None
RangeResult(rows, t1, t2) ==
    IF rows # <<>>
        THEN [table |-> DataFrame(rows), warn |-> <<>>]
        ELSE [table |-> NoTable, warn |-> <<EmptyWarning(t1, t2)>>]

----------------------------------------------------------------------------
(* States and steps *)

SdIdle == [state |-> "idle", numerator |-> NoneV, denominator |-> NoneV,
           ret |-> NoneV, exc |-> "none"]

NoOutcome == [ret |-> NoneRet, warn |-> <<>>, aborted |-> FALSE,
              partial |-> EmptyDict]

CallIdle == [state |-> "idle", ticker |-> "", year |-> FirstYear, out |-> NoOutcome]

\* Fiscal years the provider's statements cover when the metric derivation
\* is studied on its own, and the years it is asked for: the second one
\* falls outside the statements.
StatementYears == (FirstYear - 1) .. FirstYear
CallYears == {FirstYear, FirstYear + 1}

\* Fiscal years covered when a whole range is compared.
RangeStatementYears == (FirstYear - 1) .. (FirstYear + MaxSpan - 1)

RangeIdle ==
    /\ pc = "idle"
    /\ ticker1 = "" /\ ticker2 = ""
    /\ start_year = FirstYear /\ end_year = FirstYear /\ year = FirstYear
    /\ metrics1 = NoneRet /\ metrics2 = NoneRet
    /\ yearly_data = <<>>
    /\ comparison_table = NoTable
    /\ log = <<>>

(* safe_divide on its own *)

Operands == {NoneV, Whole(0), Whole(1), Whole(-3), Whole(100), Num(1, 2),
             Num(-2, 3), NaN, Inf(1), Inf(-1), Str}

InitDivide ==
    /\ sd \in [state : {"called"}, numerator : Operands, denominator : Operands,
               ret : {NoneV}, exc : {"none"}]
    /\ provider = Baseline(StatementYears) /\ devs = 0 /\ call = CallIdle
    /\ warnings = <<>>
    /\ RangeIdle

SafeDivideReturns ==
    /\ sd.state = "called"
    /\ LET r == safe_divide(sd.numerator, sd.denominator)
       IN sd' = [sd EXCEPT !.state = IF Raised(r) THEN "raised" ELSE "returned",
                           !.ret = r.val, !.exc = r.exc]
    /\ UNCHANGED <<provider, devs, call, warnings>>
    /\ UNCHANGED rangeVars

NextDivide == SafeDivideReturns

SpecDivide == InitDivide /\ [][NextDivide]_vars

(* get_annual_metrics on its own, against data that drifts off the baseline *)

CellDeviants == {Scalar(Whole(0)), Scalar(NaN), Scalar(Inf(1)), Scalar(Str),
                 Series(<<Whole(1), Whole(2)>>)}
InfoDeviants == {NoneV, Whole(0), NaN, Inf(1), Str}
CloseDeviants == {Whole(0), NaN, Inf(1), Str}

Perturbations ==
    {Deviation("no_history", "", "", "", Scalar(NoneV))}
    \cup {Deviation("last_close", "", "", "", Scalar(v)) : v \in CloseDeviants}
    \cup {Deviation("drop_row", "financials", r, "", Scalar(NoneV)) : r \in FinRows}
    \cup {Deviation("drop_row", "balance_sheet", r, "", Scalar(NoneV)) : r \in BsRows}
    \cup {Deviation("drop_column", s, "", YearLabel(y), Scalar(NoneV)) :
            s \in {"financials", "balance_sheet"}, y \in StatementYears}
    \cup {Deviation("cell", "financials", r, YearLabel(FirstYear), c) :
            r \in FinRows, c \in CellDeviants}
    \cup {Deviation("cell", "financials", "Total Revenue", YearLabel(FirstYear - 1), c) :
            c \in CellDeviants}
    \cup {Deviation("cell", "balance_sheet", r, YearLabel(FirstYear), c) :
            r \in BsRows, c \in CellDeviants}
    \cup {Deviation("info", "", k, "", Scalar(v)) : k \in InfoKeys, v \in InfoDeviants}

InitMetrics ==
    /\ provider = Baseline(StatementYears)
    /\ devs = 0
    /\ call = CallIdle
    /\ sd = SdIdle
    /\ warnings = <<>>
    /\ RangeIdle

\* The provider's data changes in one place before the call.
Perturb ==
    /\ call.state = "idle"
    /\ devs < MaxDeviations
    /\ \E dv \in Perturbations :
          /\ Apply(provider, dv) # provider
          /\ provider' = Apply(provider, dv)
    /\ devs' = devs + 1
    /\ UNCHANGED <<sd, call, warnings>>
    /\ UNCHANGED rangeVars

\* One call get_annual_metrics(ticker, year), from entry to return.
Compute ==
    /\ call.state = "idle"
    /\ \E t \in Tickers, y \in CallYears :
          LET out == get_annual_metrics(t, y, provider)
          IN /\ call' = [state |-> "returned", ticker |-> t, year |-> y, out |-> out]
             /\ warnings' = warnings \o out.warn
    /\ UNCHANGED <<sd, provider, devs>>
    /\ UNCHANGED rangeVars

NextMetrics == Perturb \/ Compute

SpecMetrics == InitMetrics /\ [][NextMetrics]_vars

(* The script: the button, the loop over the years, the returned table *)

\* Data the provider may serve to a call made from the loop: the complete
\* statements, no price history, a statement without one of its rows, a
\* balance sheet without one fiscal year.
RangeSnapshots ==
    LET full == Baseline(RangeStatementYears)
    IN {full,
        Apply(full, Deviation("no_history", "", "", "", Scalar(NoneV))),
        Apply(full, Deviation("drop_row", "financials", "EBITDA", "", Scalar(NoneV))),
        Apply(full, Deviation("drop_column", "balance_sheet", "",
                              YearLabel(FirstYear + 1), Scalar(NoneV)))}

Init ==
    /\ sd = SdIdle
    /\ provider = Baseline(RangeStatementYears) /\ devs = 0 /\ call = CallIdle
    /\ warnings = <<>>
    /\ RangeIdle

LogEntry(slot, t, y, ret) ==
    [slot |-> slot, ticker |-> t, year |-> y, yielded |-> ~ret.none]

\* st.button("Compare Stocks") with the four inputs; the call enters the loop.
PressCompare ==
    /\ pc = "idle"
    /\ \E t1 \in Tickers, t2 \in Tickers, sy \in Years, ey \in Years :
          /\ ticker1' = t1 /\ ticker2' = t2
          /\ start_year' = sy /\ end_year' = ey
          /\ year' = sy
          /\ pc' = IF sy <= ey THEN "metrics1" ELSE "after_loop"
    /\ yearly_data' = <<>>
    /\ UNCHANGED <<sd, provider, devs, call, metrics1, metrics2,
                   comparison_table, warnings, log>>

\* metrics1 = get_annual_metrics(ticker1, year)
FetchMetrics1 ==
    /\ pc = "metrics1"
    /\ \E stock \in RangeSnapshots :
          LET out == get_annual_metrics(ticker1, year, stock)
          IN /\ metrics1' = out.ret
             /\ warnings' = warnings \o out.warn
             /\ log' = Append(log, LogEntry(1, ticker1, year, out.ret))
    /\ pc' = "metrics2"
    /\ UNCHANGED <<sd, provider, devs, call, ticker1, ticker2, start_year,
                   end_year, year, metrics2, yearly_data, comparison_table>>

\* metrics2 = get_annual_metrics(ticker2, year), the row, the next year.
FetchMetrics2 ==
    /\ pc = "metrics2"
    /\ \E stock \in RangeSnapshots :
          LET out == get_annual_metrics(ticker2, year, stock)
          IN /\ metrics2' = out.ret
             /\ warnings' = warnings \o out.warn
             /\ log' = Append(log, LogEntry(2, ticker2, year, out.ret))
             /\ yearly_data' =
                    IF RowWanted(metrics1, out.ret)
                        THEN Append(yearly_data,
                                CombinedData(ticker1, ticker2, year, metrics1, out.ret))
                        ELSE yearly_data
    /\ year' = year + 1
    /\ pc' = IF year + 1 <= end_year THEN "metrics1" ELSE "after_loop"
    /\ UNCHANGED <<sd, provider, devs, call, ticker1, ticker2, start_year,
                   end_year, metrics1, comparison_table>>

\* The lines after the loop: the table, or the warning and None.
ReturnTable ==
    /\ pc = "after_loop"
    /\ LET r == RangeResult(yearly_data, ticker1, ticker2)
       IN /\ comparison_table' = r.table
          /\ warnings' = warnings \o r.warn
    /\ pc' = "done"
    /\ UNCHANGED <<sd, provider, devs, call, ticker1, ticker2, start_year,
                   end_year, year, metrics1, metrics2, yearly_data, log>>

Next == PressCompare \/ FetchMetrics1 \/ FetchMetrics2 \/ ReturnTable

Spec == Init /\ [][Next]_vars

----------------------------------------------------------------------------
(* Properties of safe_divide (checked under SpecDivide) *)

\* What the documentation of safe_divide promises for a pair of operands.
DocumentedQuotient(a, b) ==
    IF IsNone(a) \/ IsNone(b) \/ IsZero(b) \/ a.k = "str" \/ b.k = "str"
        THEN NoneV
        ELSE TrueDiv(a, b).val

\* C4: safe_divide never raises: it returns None when an operand is None,
\* when the denominator is zero or when the division itself would fail (an
\* operand that is not a number), and numerator / denominator otherwise.
C4_SafeDivideNeverRaises ==
    sd.state # "called" =>
        /\ sd.state = "returned"
        /\ sd.ret = DocumentedQuotient(sd.numerator, sd.denominator)

----------------------------------------------------------------------------
(* Properties of get_annual_metrics (checked under SpecMetrics) *)

Returned == call.state = "returned"
Metrics == call.out.ret.metrics
GotMetrics == Returned /\ ~call.out.ret.none

HasColumn(stmt, y) == YearLabel(y) \in stmt.columns

\* The scalar the derivation reads from a cell.
CellValue(stmt, row, y) == get_scalar(stmt.cell[row][YearLabel(y)])

AllRowsPresent ==
    FinRows \subseteq provider.financials.index
    /\ BsRows \subseteq provider.balance_sheet.index

\* No cell the derivation reads and no CompanyInfo field is a string.
NoStringInput(y) ==
    /\ \A r \in FinRows : HasColumn(provider.financials, y)
            => CellValue(provider.financials, r, y).k # "str"
    /\ HasColumn(provider.financials, y - 1)
            => CellValue(provider.financials, "Total Revenue", y - 1).k # "str"
    /\ \A r \in BsRows : HasColumn(provider.balance_sheet, y)
            => CellValue(provider.balance_sheet, r, y).k # "str"
    /\ \A k \in InfoKeys : InfoGet(provider.info, k).k # "str"
    /\ provider.history[Len(provider.history)].k # "str"

SomeColumnAbsent(y) ==
    \/ ~HasColumn(provider.financials, y)
    \/ ~HasColumn(provider.financials, y - 1)
    \/ ~HasColumn(provider.balance_sheet, y)

\* C2: with a non-empty price series and every required row present, the
\* absence of the year or prior-year label from a statement's columns never
\* fails the computation: the call returns a mapping in which the ratios
\* built on the absent column are unavailable.
C2_MissingColumnDegrades ==
    ( /\ Returned
      /\ provider.history # <<>>
      /\ AllRowsPresent
      /\ NoStringInput(call.year)
      /\ SomeColumnAbsent(call.year) )
    => /\ ~call.out.ret.none
       /\ ~HasColumn(provider.financials, call.year - 1)
            => IsNone(Metrics["Revenue Growth"])
       /\ ~HasColumn(provider.financials, call.year)
            => IsNone(Metrics["Gross Profit Margin"])
       /\ ~HasColumn(provider.balance_sheet, call.year)
            => IsNone(Metrics["ROE"]) /\ IsNone(Metrics["Debt-to-Equity"])

\* The income statement has the year and prior-year columns and every row,
\* and the cells the derivation reads are finite numbers.
FinancialsAvailable(y) ==
    /\ HasColumn(provider.financials, y) /\ HasColumn(provider.financials, y - 1)
    /\ FinRows \subseteq provider.financials.index
    /\ \A r \in FinRows : IsFinite(CellValue(provider.financials, r, y))
    /\ IsFinite(CellValue(provider.financials, "Total Revenue", y - 1))

PriceAvailable ==
    provider.history # <<>> /\ IsFinite(provider.history[Len(provider.history)])

\* The balance sheet has no column for the year; everything else the
\* derivation reads is there: finite numbers, with non-zero revenue and EPS.
EquityColumnMissing ==
    /\ Returned
    /\ PriceAvailable
    /\ ~HasColumn(provider.balance_sheet, call.year)
    /\ FinancialsAvailable(call.year)
    /\ ~IsZero(CellValue(provider.financials, "Total Revenue", call.year))
    /\ IsFinite(InfoGet(provider.info, "trailingEps"))
    /\ ~IsZero(InfoGet(provider.info, "trailingEps"))
    /\ InfoGet(provider.info, "marketCap").k # "str"

\* C3 as stated: when the balance sheet lacks the year column of the total
\* equity row and the other inputs are available, ROE and Debt-to-Equity
\* are unavailable while ROA, Gross Profit Margin and P/E Ratio are numbers.
C3_RoaSurvivesMissingEquity ==
    EquityColumnMissing =>
        /\ ~call.out.ret.none
        /\ IsNone(Metrics["ROE"]) /\ IsNone(Metrics["Debt-to-Equity"])
        /\ IsFinite(Metrics["ROA"])
        /\ IsFinite(Metrics["Gross Profit Margin"])
        /\ IsFinite(Metrics["P/E Ratio"])

\* C3 amended: when the balance sheet lacks the year column and the other
\* inputs are available, the call returns metrics in which ROE,
\* Debt-to-Equity and ROA (total assets sit in the same column) are
\* unavailable while Gross Profit Margin and P/E Ratio are numbers.
C3_PartialDegradation ==
    EquityColumnMissing =>
        /\ ~call.out.ret.none
        /\ IsNone(Metrics["ROE"]) /\ IsNone(Metrics["Debt-to-Equity"])
        /\ IsNone(Metrics["ROA"])
        /\ IsFinite(Metrics["Gross Profit Margin"])
        /\ IsFinite(Metrics["P/E Ratio"])

C3_Witness == EquityColumnMissing /\ devs >= 1

\* C5: in every returned mapping the PEG Ratio is CompanyInfo's pegRatio
\* verbatim when there is one, and otherwise safe_divide(P/E Ratio,
\* safe_divide(Revenue Growth, 100)), which is unavailable when P/E Ratio or
\* Revenue Growth is unavailable or Revenue Growth is zero.
C5_PegRatio ==
    GotMetrics =>
        LET supplied == InfoGet(provider.info, "pegRatio")
            pe == Metrics["P/E Ratio"]
            growth == Metrics["Revenue Growth"]
        IN IF ~IsNone(supplied)
              THEN Metrics["PEG Ratio"] = supplied
              ELSE /\ Metrics["PEG Ratio"] =
                        safe_divide(pe, safe_divide(growth, Whole(100)).val).val
                   /\ (IsNone(pe) \/ IsNone(growth) \/ IsZero(growth))
                        => IsNone(Metrics["PEG Ratio"])

C5_Witness ==
    /\ GotMetrics
    /\ IsNone(InfoGet(provider.info, "pegRatio"))
    /\ IsFinite(Metrics["PEG Ratio"])

\* A complete, well-formed statement set: prices, every row, the year and
\* prior-year columns, finite numeric cells, every CompanyInfo field.
CompleteStatements ==
    /\ Returned
    /\ PriceAvailable
    /\ FinancialsAvailable(call.year)
    /\ HasColumn(provider.balance_sheet, call.year)
    /\ HasColumn(provider.balance_sheet, call.year - 1)
    /\ BsRows \subseteq provider.balance_sheet.index
    /\ \A r \in BsRows : IsFinite(CellValue(provider.balance_sheet, r, call.year))
    /\ \A k \in InfoKeys : IsFinite(InfoGet(provider.info, k))

\* The seven divisors of the ratios.
Divisors ==
    {CellValue(provider.balance_sheet, "Total Equity Gross Minority Interest", call.year),
     CellValue(provider.balance_sheet, "Total Assets", call.year),
     CellValue(provider.financials, "Total Revenue", call.year),
     CellValue(provider.financials, "Total Revenue", call.year - 1),
     CellValue(provider.financials, "EBITDA", call.year),
     InfoGet(provider.info, "trailingEps"),
     provider.history[Len(provider.history)]}

AllTenNumeric ==
    /\ ~call.out.ret.none
    /\ DOMAIN Metrics = AllMetricKeys
    /\ \A k \in AllMetricKeys : IsFinite(Metrics[k])

\* C7 as stated: for a complete, well-formed statement set all ten metrics
\* are present and numeric.
C7_CompleteGivesTenNumbers == CompleteStatements => AllTenNumeric

\* C7 amended: for a complete, well-formed statement set none of whose
\* divisors (total equity, total assets, revenue, prior-year revenue,
\* EBITDA, trailing EPS, closing price) is zero, all ten metrics are present
\* and numeric.
C7_CompleteNonZeroGivesTenNumbers ==
    (CompleteStatements /\ \A v \in Divisors : ~IsZero(v)) => AllTenNumeric

C7_Witness ==
    /\ CompleteStatements /\ \A v \in Divisors : ~IsZero(v)
    /\ IsZero(CellValue(provider.financials, "Net Income", call.year))

\* C8: every field of a returned mapping is a finite number or the
\* unavailable marker, whatever the statements, prices and CompanyInfo hold.
C8_FieldsFiniteOrUnavailable ==
    GotMetrics => \A k \in DOMAIN Metrics : IsFinite(Metrics[k]) \/ IsNone(Metrics[k])

\* A lookup the derivation performs names a row the statement does not have.
RowLookupFails(y) ==
    \/ HasColumn(provider.financials, y) /\ ~(FinRows \subseteq provider.financials.index)
    \/ HasColumn(provider.financials, y - 1)
          /\ "Total Revenue" \notin provider.financials.index
    \/ HasColumn(provider.balance_sheet, y) /\ ~(BsRows \subseteq provider.balance_sheet.index)

C10_AbortWarningNamesTickerYearCause ==
    (Returned /\ call.out.aborted) =>
        /\ Len(call.out.warn) = 1
        /\ {"ticker", "year", "e"} \subseteq DOMAIN call.out.warn[1].args
        /\ call.out.warn[1].args.ticker = call.ticker
        /\ call.out.warn[1].args.year = YearLabel(call.year)

----------------------------------------------------------------------------
(* Properties of compare_stocks_over_range (checked under Spec) *)

Yielded(slot, y) ==
    \E i \in DOMAIN log :
        log[i].slot = slot /\ log[i].year = y /\ log[i].yielded

BothYielded(y) == Yielded(1, y) /\ Yielded(2, y)

Rows == comparison_table.rows

IsEmptyWarning(w) == w = EmptyWarning(ticker1, ticker2)

\* C1: the returned table has exactly one row for each year of
\* [start_year, end_year] in which get_annual_metrics yielded metrics for
\* both tickers, none for any other year, and its rows are in strictly
\* ascending order of year.
C1_RowsAreYearsBothYielded ==
    pc = "done" =>
        /\ \A y \in start_year .. end_year :
              Cardinality({i \in DOMAIN Rows : Rows[i].Year = y})
                  = IF BothYielded(y) THEN 1 ELSE 0
        /\ \A i \in DOMAIN Rows : Rows[i].Year \in start_year .. end_year
        /\ \A i, j \in DOMAIN Rows : i < j => Rows[i].Year < Rows[j].Year

C1_Witness ==
    /\ pc = "done"
    /\ end_year = start_year + 2
    /\ ~BothYielded(start_year + 1)
    /\ Len(Rows) = 2
    /\ Rows[1].Year = start_year /\ Rows[2].Year = end_year

\* C6: the call never returns an empty table: it returns a table with at
\* least one row, or None; None comes with one EmptyResult warning, exactly
\* when no year of the range produced metrics for both tickers.
C6_NeverEmptyTable ==
    pc = "done" =>
        /\ comparison_table.none \/ Len(Rows) >= 1
        /\ comparison_table.none <=> \A y \in start_year .. end_year : ~BothYielded(y)
        /\ Cardinality({i \in DOMAIN warnings : IsEmptyWarning(warnings[i])})
              = IF comparison_table.none THEN 1 ELSE 0

C6_Witness ==
    /\ pc = "done"
    /\ comparison_table.none
    /\ \E y \in start_year .. end_year : Yielded(1, y) /\ ~Yielded(2, y)

====
